---- MODULE Spec2Model ----
(***************************************************************************)
(* PythonConcepts: the demonstration scripts phase_1 .. phase_9.           *)
(*                                                                         *)
(* The repository has one place where named units are collected, run one   *)
(* after the other inside a fault boundary and summarised: phase_9.py,     *)
(* whose class TestCalculation binds the units (its test methods) and      *)
(* whose main() runs them with unittest.main(argv=[...], exit=False).      *)
(* That script is modelled as the runner (specification Spec).             *)
(* phase_8.py, whose main() starts threads, a child process and coroutines *)
(* and waits for them, is modelled as specification Spec8 (Spec8Fair when  *)
(* what it started is scheduled).  Section 3 of that script, the descriptor*)
(* PositiveNumber guarding BankAccount.balance, is specification SpecD,    *)
(* with the values assigned ranging over a set that holds the source's.    *)
(* The scope demonstration of phase_4.py and the file demonstration of     *)
(* phase_6.py are specification Spec46.  Specification SpecC calls         *)
(* complex_calculation of phase_9.py on integers small and large, and      *)
(* specification SpecL runs its statements one at a time.                  *)
(*                                                                         *)
(* The bodies of the units are inputs of the runner.  They are drawn from  *)
(* the two shapes the source writes,                                       *)
(*     self.assertEqual(complex_calculation(a, b), e)                      *)
(*     with self.assertRaises(ValueError): complex_calculation(a, b)       *)
(* with a, b, e ranging over small sets that contain the source's own      *)
(* arguments, so that units which raise are covered as well as units which *)
(* return.  The class body of the source is one of the enumerated inputs   *)
(* (SourceRegistry).                                                       *)
(***************************************************************************)
EXTENDS Integers, Sequences, FiniteSets, TLC

VARIABLES
    pc9,        \* position of phase_9.py: class body, main(), unittest run, exit
    attrs,      \* namespace of class TestCalculation: sequence of [name, body]
    ndefs,      \* number of def statements the class body has executed
    suite,      \* the loaded test names, in the order the runner will run them
    results,    \* one RunResult per executed unit, in execution order
    testsRun,   \* TestResult.testsRun
    failures,   \* TestResult.failures (names)
    errors,     \* TestResult.errors (names)
    shouldStop, \* TestResult.shouldStop
    summary,    \* what the runner reports when the run is over
    regAtStart, \* the class namespace as it was when unittest.main was entered
    uncaught,   \* the exception leaving unittest.main, "none" if there is none
    exitCode,   \* exit status of the process, meaningful once pc9 = "exited"
    pc8,        \* position of phase_8.py's main()
    thread,     \* position of each thread running io_bound_task
    process,    \* state of the child process p1
    task,       \* position of each coroutine running async_task
    stdout8,    \* what phase_8.py has written to standard output, in order
    loop,       \* the asyncio event loop: its ready queue and its timers
    pcD,        \* phase_8.py section 3: "new", "constructed", or "failed"
    dictD,      \* acc.__dict__, as a set of <<name, value>> pairs
    outD,       \* the lines section 3 has printed, in order
    raisedD,    \* what the latest assignment to acc.balance raised
    lastD,      \* the value of the latest assignment to acc.balance
    nassign,    \* number of assignments made after the construction
    pc4,        \* position of phase_4.py's main()
    ns4,        \* phase_4.py's namespaces: the module's globals and the frames
    stdout4,    \* the lines phase_4.py's scope demo has printed, in order
    pc6,        \* position of phase_6.py's main()
    fs6,        \* the file example_phase_6.txt: none, or its content
    fs6start,   \* the file as it was when phase_6.py was started
    content6,   \* what phase_6.py's main() has read from the file
    callsC,     \* number of calls of complex_calculation made so far
    argsC,      \* the arguments of the latest call
    outC,       \* what the latest call raised or returned
    logC,       \* the records the latest call handed to the logger
    histC,      \* every call made so far: its arguments and its outcome
    frameC      \* the call of complex_calculation in progress: line, a, b, result

vars9 == <<pc9, attrs, ndefs, suite, results, testsRun, failures, errors,
           shouldStop, summary, regAtStart, uncaught, exitCode>>

vars8 == <<pc8, thread, process, task, stdout8, loop>>

varsD == <<pcD, dictD, outD, raisedD, lastD, nassign>>

vars4 == <<pc4, ns4, stdout4>>

vars6 == <<pc6, fs6, fs6start, content6>>

varsC == <<callsC, argsC, outC, logC, histC, frameC>>

vars == <<vars9, vars8, varsD, vars4, vars6, varsC>>

\* what an action of phase_9.py, and what an action of phase_8.py, leaves alone
others9 == <<vars8, varsD, vars4, vars6, varsC>>
others8 == <<vars9, varsD, vars4, vars6, varsC>>
othersD == <<vars9, vars8, vars4, vars6, varsC>>
others4 == <<vars9, vars8, varsD, vars6, varsC>>
others6 == <<vars9, vars8, varsD, vars4, varsC>>
othersC == <<vars9, vars8, varsD, vars4, vars6>>

----------------------------------------------------------------------------
(* Bounds of the model *)

\* number of def statements in the body of the test class
MaxDefs == 3

\* number of calls of complex_calculation in a run
MaxCalls == 2

\* the decimal exponent of the large integers
BigExp == 400

\* integers passed to complex_calculation: m * 10^k; the source passes 10, 2, 0
Mantissas == {-3, 0, 2, 10}
PyInts == {x \in [m : Mantissas, k : {0, BigExp}] : x.m = 0 => x.k = 0}

\* the largest and the smallest decimal exponent of a float
FloatMax10Exp == 308
FloatMin10Exp == -324

\* number of assignments to acc.balance after the account is constructed
MaxAssign == 3

\* values assigned to acc.balance; the source assigns 100 and -50
Amounts == {-50, 0, 50, 100}

\* values of the numerator, denominator and expected value of a unit
ArgsA == {10}
ArgsB == {0, 2, 5}
ArgsE == {5}

----------------------------------------------------------------------------
(* Values *)

\* the threads t1, t2 and the coroutines of phase_8.py, by the name they print
Threads == {"A", "B"}
Coroutines == {"X", "Y"}

\* what example_phase_6.txt can be when phase_6.py starts: absent, or a file
\* left by something else
FilesAtStart == {{}, {<<"left over">>}}

NoFault == "NoFault"
NoSummary == [ran |-> -1, failures |-> -1, errors |-> -1]

\* names of units, in ascending string order (the order sorted() gives them)
UnitNames == <<"test_boundary", "test_failure", "test_success">>

NameRank(n) == CHOOSE i \in 1..Len(UnitNames) : UnitNames[i] = n

Bodies ==
    [kind : {"assertEqual"}, a : ArgsA, b : ArgsB, e : ArgsE]
    \cup [kind : {"assertRaises"}, a : ArgsA, b : ArgsB, e : {0}]

\* class TestCalculation as the source writes it
SourceRegistry ==
    << [name |-> "test_success",
        body |-> [kind |-> "assertEqual", a |-> 10, b |-> 2, e |-> 5]],
       [name |-> "test_failure",
        body |-> [kind |-> "assertRaises", a |-> 10, b |-> 0, e |-> 0]] >>

----------------------------------------------------------------------------
(* complex_calculation *)

RECURSIVE GCD(_, _)
GCD(x, y) == IF y = 0 THEN x ELSE GCD(y, x % y)

Abs(x) == IF x < 0 THEN -x ELSE x

\* a / b as an exact fraction in lowest terms with a positive denominator
Quotient(a, b) ==
    LET g == GCD(Abs(a), Abs(b))
        s == IF b < 0 THEN -1 ELSE 1
    IN  [num |-> (s * a) \div g, den |-> (s * b) \div g]

(* Python's int has no bound and its float has one.  An int of the model is *)
(* m * 10^k, written [m, k]; a float is (num / den) * 10^exp.               *)
PyInt(n) == [m |-> n, k |-> 0]

NoValue == [num |-> 0, den |-> 0, exp |-> 0]

\* number of decimal digits of n >= 0
RECURSIVE Digits(_)
Digits(n) == IF n < 10 THEN 1 ELSE 1 + Digits(n \div 10)

(* a / b for ints, b # 0: the quotient as a float.  A quotient of 10^309 or *)
(* more is too large for a float and raises OverflowError; one below        *)
(* 10^-324 is returned as 0.0.                                              *)
true_division(a, b) ==
    LET d == a.k - b.k
    IN  IF a.m = 0
        THEN [raised |-> "none", value |-> [num |-> 0, den |-> 1, exp |-> 0]]
        ELSE IF d - Digits(Abs(b.m)) > FloatMax10Exp
        THEN [raised |-> "OverflowError", value |-> NoValue]
        ELSE IF d + Digits(Abs(a.m)) < FloatMin10Exp
        THEN [raised |-> "none", value |-> [num |-> 0, den |-> 1, exp |-> 0]]
        ELSE [raised |-> "none",
              value |-> [num |-> Quotient(a.m, b.m).num,
                         den |-> Quotient(a.m, b.m).den, exp |-> d]]

Log(level, what) == [level |-> level, msg |-> what]

\* faulty variant: b is not checked before the division
complex_calculationNoCheck(a, b) ==
    IF b.m = 0
    THEN [raised |-> "ZeroDivisionError", value |-> NoValue,
          log |-> <<Log("INFO", "Starting calculation")>>]
    ELSE [raised |-> true_division(a, b).raised,
          value |-> true_division(a, b).value,
          log |-> <<Log("INFO", "Starting calculation")>>]

\* faulty variant: the first result is kept and returned by every later call
complex_calculationCached(a, b) ==
    IF callsC > 0
    THEN [raised |-> outC.raised, value |-> outC.value, log |-> <<>>]
    ELSE IF b.m = 0
    THEN [raised |-> "ValueError", value |-> NoValue, log |-> <<>>]
    ELSE [raised |-> true_division(a, b).raised,
          value |-> true_division(a, b).value, log |-> <<>>]

(* complex_calculation(a, b): what it raises, what it returns, and the      *)
(* records it hands to the logger, in order                                 *)
complex_calculation(a, b) ==
    LET start == <<Log("INFO", "Starting calculation")>>
    IN  IF b.m = 0
        THEN [raised |-> "ValueError", value |-> NoValue,
              log |-> start \o <<Log("ERROR", "Attempted division by zero!")>>]
        ELSE LET result == true_division(a, b)
             IN  IF result.raised # "none"
                 THEN [raised |-> result.raised, value |-> NoValue, log |-> start]
                 ELSE [raised |-> "none", value |-> result.value,
                       log |-> start \o <<Log("DEBUG", "Calculation result")>>]

----------------------------------------------------------------------------
(* The units: the fault, if any, that leaves the entry procedure *)

test_success(body) ==
    LET r == complex_calculation(PyInt(body.a), PyInt(body.b))
    IN  IF r.raised # "none" THEN r.raised
        ELSE IF r.value # [num |-> body.e, den |-> 1, exp |-> 0]
        THEN "AssertionError"
        ELSE "none"

test_failure(body) ==
    LET r == complex_calculation(PyInt(body.a), PyInt(body.b))
    IN  IF r.raised = "ValueError" THEN "none" ELSE "AssertionError"

Entry(body) ==
    IF body.kind = "assertEqual" THEN test_success(body) ELSE test_failure(body)

----------------------------------------------------------------------------
(* Helpers on the class namespace *)

Names(reg) == {reg[i].name : i \in 1..Len(reg)}

NameSeq(reg) == [i \in 1..Len(reg) |-> reg[i].name]

IndexOf(reg, n) == CHOOSE i \in 1..Len(reg) : reg[i].name = n

BodyOf(reg, n) == reg[IndexOf(reg, n)].body

\* faulty variant: a def statement always adds an entry
BindAppend(reg, n, body) == Append(reg, [name |-> n, body |-> body])

\* a def statement in a class body binds the name: a name already bound is
\* rebound in place, a new name is added at the end
Bind(reg, n, body) ==
    IF n \in Names(reg)
    THEN [reg EXCEPT ![IndexOf(reg, n)].body = body]
    ELSE Append(reg, [name |-> n, body |-> body])

\* the names of a set in ascending order
RECURSIVE SortedNames(_)
SortedNames(S) ==
    IF S = {} THEN <<>>
    ELSE LET m == CHOOSE x \in S : \A y \in S : NameRank(x) <= NameRank(y)
         IN  <<m>> \o SortedNames(S \ {m})

----------------------------------------------------------------------------
Init ==
    /\ pc9 = "classdef"
    /\ attrs = <<>>
    /\ ndefs = 0
    /\ suite = <<>>
    /\ results = <<>>
    /\ testsRun = 0
    /\ failures = <<>>
    /\ errors = <<>>
    /\ shouldStop = FALSE
    /\ summary = NoSummary
    /\ regAtStart = <<>>
    /\ uncaught = "none"
    /\ exitCode = 0
    /\ pc8 = "sections_1_3"
    /\ thread = [t \in Threads |-> "new"]
    /\ process = "new"
    /\ task = [c \in Coroutines |-> "new"]
    /\ stdout8 = <<>>
    /\ loop = [ready |-> <<>>, timers |-> <<>>]
    /\ pcD = "new"
    /\ dictD = {}
    /\ outD = <<>>
    /\ raisedD = "none"
    /\ lastD = 0
    /\ nassign = 0
    /\ pc4 = "sections_1_3"
    /\ ns4 = [globals |-> {}, main |-> {}, outer_function |-> {},
              inner_function |-> {}]
    /\ stdout4 = <<>>
    /\ pc6 = "sections_1_2"
    /\ fs6 \in FilesAtStart
    /\ fs6start = fs6
    /\ content6 = <<>>
    /\ callsC = 0
    /\ argsC = <<PyInt(0), PyInt(0)>>
    /\ outC = [raised |-> "none", value |-> NoValue]
    /\ logC = <<>>
    /\ histC = {}
    /\ frameC = [pc |-> "idle", a |-> PyInt(0), b |-> PyInt(0), result |-> NoValue]

\* faulty variant: def statements still run once main() has been entered
DefineUnitLate(n, body) ==
    /\ pc9 \in {"classdef", "run"}
    /\ ndefs < MaxDefs
    /\ attrs' = Bind(attrs, n, body)
    /\ ndefs' = ndefs + 1
    /\ UNCHANGED <<pc9, suite, results, testsRun, failures, errors,
                   shouldStop, summary, regAtStart, uncaught, exitCode,
                   others9>>

(* Registration: the body of class TestCalculation runs its def statements *)
DefineUnit(n, body) ==
    /\ pc9 = "classdef"
    /\ ndefs < MaxDefs
    /\ attrs' = Bind(attrs, n, body)
    /\ ndefs' = ndefs + 1
    /\ UNCHANGED <<pc9, suite, results, testsRun, failures, errors,
                   shouldStop, summary, regAtStart, uncaught, exitCode,
                   others9>>

(* The class statement is over; the module reaches  if __name__ == "__main__" *)
EndClass ==
    /\ pc9 = "classdef"
    /\ pc9' = "main"
    /\ UNCHANGED <<attrs, ndefs, suite, results, testsRun, failures, errors,
                   shouldStop, summary, regAtStart, uncaught, exitCode,
                   others9>>

(* main(), sections 1 and 2: the prints and the logging demo, whose         *)
(* ValueError is caught by main's own handler                               *)
MainDemo ==
    /\ pc9 = "main"
    /\ pc9' = "unittest"
    /\ UNCHANGED <<attrs, ndefs, suite, results, testsRun, failures, errors,
                   shouldStop, summary, regAtStart, uncaught, exitCode,
                   others9>>

\* faulty variant: exit left at its default, True
ExitArgDefault == TRUE

\* faulty variant: the run stops at the first unit that fails
FailfastOn == TRUE

(* unittest.main(argv=['first-arg-is-ignored'], exit=False): the arguments  *)
(* the source passes.  argv holds no -f, so failfast keeps its default.     *)
ExitArg == FALSE

Failfast == FALSE

\* faulty variant: the loader keeps the order of definition
LoadedNamesUnsorted(reg) == NameSeq(reg)

\* faulty variant: the loader collects the names of the class twice
LoadedNamesTwice(reg) == SortedNames(Names(reg)) \o SortedNames(Names(reg))

(* createTests: the loader takes the test names of the class, sorted *)
LoadedNames(reg) == SortedNames(Names(reg))

LoadTests ==
    /\ pc9 = "unittest"
    /\ suite' = LoadedNames(attrs)
    /\ regAtStart' = attrs
    /\ pc9' = "run"
    /\ UNCHANGED <<attrs, ndefs, results, testsRun, failures, errors,
                   shouldStop, summary, uncaught, exitCode,
                   others9>>

\* faulty variant: the boundary catches assertion failures only
BoundaryAssertOnly(exc) ==
    IF exc = "none"
    THEN [status |-> "ok", fault |-> NoFault, escaped |-> "none"]
    ELSE IF exc = "AssertionError"
    THEN [status |-> "FAIL", fault |-> exc, escaped |-> "none"]
    ELSE [status |-> "ERROR", fault |-> exc, escaped |-> exc]

\* faulty variant: a fault other than an assertion failure is swallowed
BoundarySwallow(exc) ==
    IF exc = "AssertionError"
    THEN [status |-> "FAIL", fault |-> exc, escaped |-> "none"]
    ELSE [status |-> "ok", fault |-> NoFault, escaped |-> "none"]

(* The fault boundary around one unit: what is recorded for the fault that  *)
(* left the entry procedure, and what passes the boundary                   *)
Boundary(exc) ==
    IF exc = "none"
    THEN [status |-> "ok", fault |-> NoFault, escaped |-> "none"]
    ELSE IF exc = "AssertionError"
    THEN [status |-> "FAIL", fault |-> exc, escaped |-> "none"]
    ELSE [status |-> "ERROR", fault |-> exc, escaped |-> "none"]

(* runTests: the next unit of the suite is run inside the boundary *)
RunTest ==
    /\ pc9 = "run"
    /\ ~shouldStop
    /\ testsRun < Len(suite)
    /\ LET n   == suite[testsRun + 1]
           exc == Entry(BodyOf(attrs, n))
           out == Boundary(exc)
       IN  IF out.escaped # "none"
           THEN /\ uncaught' = out.escaped
                /\ pc9' = "exited"
                /\ exitCode' = 1
                /\ UNCHANGED <<results, testsRun, failures, errors, shouldStop>>
           ELSE /\ testsRun' = testsRun + 1
                /\ results' = Append(results,
                       [unit_name |-> n, status |-> out.status, fault |-> out.fault])
                /\ failures' = IF out.status = "FAIL"
                                THEN Append(failures, n) ELSE failures
                /\ errors' = IF out.status = "ERROR"
                              THEN Append(errors, n) ELSE errors
                /\ shouldStop' = (Failfast /\ out.status # "ok")
                /\ UNCHANGED <<pc9, uncaught, exitCode>>
    /\ UNCHANGED <<attrs, ndefs, suite, summary, regAtStart,
                   others9>>

\* faulty variant: a run without units is reported as an error
summarizeEmptyIsError(ran, nfail, nerr) ==
    IF ran = 0
    THEN [ran |-> 0, failures |-> 0, errors |-> 1]
    ELSE [ran |-> ran, failures |-> nfail, errors |-> nerr]

\* faulty variant: the report counts the errors among the failures and again as errors
summarizeDouble(ran, nfail, nerr) ==
    [ran |-> ran, failures |-> nfail + nerr, errors |-> nerr]

(* The runner's report: "Ran N tests", then OK or FAILED (failures=, errors=) *)
summarize(ran, nfail, nerr) ==
    [ran |-> ran, failures |-> nfail, errors |-> nerr]

Summarize ==
    /\ pc9 = "run"
    /\ shouldStop \/ testsRun = Len(suite)
    /\ summary' = summarize(testsRun, Len(failures), Len(errors))
    /\ pc9' = "ran"
    /\ UNCHANGED <<attrs, ndefs, suite, results, testsRun, failures, errors,
                   shouldStop, regAtStart, uncaught, exitCode,
                   others9>>

wasSuccessful == Len(failures) = 0 /\ Len(errors) = 0

(* if self.exit: sys.exit(not self.result.wasSuccessful()); otherwise       *)
(* unittest.main returns, main() returns and the script ends                *)
ExitStatus(exit, ok) == IF exit /\ ~ok THEN 1 ELSE 0

Return ==
    /\ pc9 = "ran"
    /\ pc9' = "exited"
    /\ exitCode' = ExitStatus(ExitArg, wasSuccessful)
    /\ UNCHANGED <<attrs, ndefs, suite, results, testsRun, failures, errors,
                   shouldStop, summary, regAtStart, uncaught,
                   others9>>

Next ==
    \/ \E n \in {UnitNames[i] : i \in 1..Len(UnitNames)}, body \in Bodies :
            DefineUnit(n, body)
    \/ EndClass
    \/ MainDemo
    \/ LoadTests
    \/ RunTest
    \/ Summarize
    \/ Return

Spec == Init /\ [][Next]_vars

----------------------------------------------------------------------------
(* phase_8.py: main() and what it starts in section 4, Concurrency *)

\* print(x) writes x and then the line end, in two writes to the stream
Text(who, what) == [by |-> who, text |-> what]
LineEnd(who) == [by |-> who, text |-> "\n"]

\* main() runs one statement that starts or waits for nothing
MainStep(from, to) ==
    /\ pc8 = from
    /\ pc8' = to
    /\ UNCHANGED <<thread, process, task, stdout8, loop, others8>>

\* main() prints a line
MainPrint(from, what, to) ==
    /\ pc8 = from
    /\ stdout8' = stdout8 \o <<Text("main", what), LineEnd("main")>>
    /\ pc8' = to
    /\ UNCHANGED <<thread, process, task, loop, others8>>

\* sections 1 to 3: memory management, metaprogramming, descriptors
Sections_1_3 == MainStep("sections_1_3", "print_4")

PrintConcurrency == MainPrint("print_4", "--- 4. Concurrency ---", "print_A")

PrintThreading == MainPrint("print_A", "A. Threading:", "t1_start")

\* faulty variant: the thread is created and never started
StartThreadForgotten(from, t, to) == MainStep(from, to)

\* t.start()
StartThread(from, t, to) ==
    /\ pc8 = from
    /\ thread' = [thread EXCEPT ![t] = "started"]
    /\ pc8' = to
    /\ UNCHANGED <<process, task, stdout8, loop, others8>>

T1Start == StartThread("t1_start", "A", "t2_start")

T2Start == StartThread("t2_start", "B", "t1_join")

\* faulty variant: the join returns at once
JoinNoWait(from, t, to) == MainStep(from, to)

\* t.join(): main() goes on once the thread has ended
JoinThread(from, t, to) ==
    /\ pc8 = from
    /\ thread[t] = "ended"
    /\ pc8' = to
    /\ UNCHANGED <<thread, process, task, stdout8, loop, others8>>

T1Join == JoinThread("t1_join", "A", "t2_join")

T2Join == JoinThread("t2_join", "B", "print_B")

(* io_bound_task(name, duration), run by a thread *)
ThreadWrite(t, from, what, to) ==
    /\ thread[t] = from
    /\ stdout8' = Append(stdout8, what)
    /\ thread' = [thread EXCEPT ![t] = to]
    /\ UNCHANGED <<pc8, process, task, loop, others8>>

io_bound_task(t) ==
    \/ ThreadWrite(t, "started", Text(t, "starting sleep..."), "starting_end")
    \/ ThreadWrite(t, "starting_end", LineEnd(t), "sleep")
    \/ /\ thread[t] = "sleep"
       /\ thread' = [thread EXCEPT ![t] = "woke"]
       /\ UNCHANGED <<pc8, process, task, stdout8, loop, others8>>
    \/ ThreadWrite(t, "woke", Text(t, "woke up!"), "woke_end")
    \/ ThreadWrite(t, "woke_end", LineEnd(t), "ended")

PrintMultiprocessing == MainPrint("print_B", "B. Multiprocessing:", "p1_start")

\* p1.start()
P1Start ==
    /\ pc8 = "p1_start"
    /\ process' = "started"
    /\ pc8' = "p1_join"
    /\ UNCHANGED <<thread, task, stdout8, loop, others8>>

\* cpu_bound_task(1000000) in the child process, which prints nothing
cpu_bound_task ==
    /\ process = "started"
    /\ process' = "exited"
    /\ UNCHANGED <<pc8, thread, task, stdout8, loop, others8>>

\* faulty variant: main() does not wait for the child process
P1JoinNoWait == MainStep("p1_join", "print_finished")

\* p1.join()
P1Join ==
    /\ pc8 = "p1_join"
    /\ process = "exited"
    /\ pc8' = "print_finished"
    /\ UNCHANGED <<thread, process, task, stdout8, loop, others8>>

PrintProcessFinished == MainPrint("print_finished", "Process finished.", "print_C")

PrintAsyncio == MainPrint("print_C", "C. Asyncio:", "asyncio_run")

\* faulty variant: run_async awaits async_task("X", 1) before it creates Y
AsyncioRunAwaitFirst ==
    /\ pc8 = "asyncio_run"
    /\ task' = [c \in Coroutines |-> IF c = "X" THEN "scheduled" ELSE "new"]
    /\ loop' = [ready |-> <<"X">>, timers |-> <<>>]
    /\ pc8' = "gather"
    /\ UNCHANGED <<thread, process, stdout8, others8>>

(* asyncio.run(run_async()): gather() makes a task of each coroutine, X     *)
(* first, which puts their first steps on the loop's queue of ready         *)
(* callbacks; run_async then waits for both                                 *)
AsyncioRun ==
    /\ pc8 = "asyncio_run"
    /\ task' = [c \in Coroutines |-> "scheduled"]
    /\ loop' = [ready |-> <<"X", "Y">>, timers |-> <<>>]
    /\ pc8' = "gather"
    /\ UNCHANGED <<thread, process, stdout8, others8>>

(* async_task(name, duration), run by the event loop in main's thread: the  *)
(* loop runs the callback at the head of its ready queue, and a coroutine   *)
(* runs from one await to the next without being interleaved.               *)
(* await asyncio.sleep(duration) sets a timer and gives the loop back.      *)
async_task(c) ==
    /\ pc8 = "gather"
    /\ loop.ready # <<>>
    /\ Head(loop.ready) = c
    /\ \/ /\ task[c] = "scheduled"
          /\ stdout8' = stdout8 \o <<Text(c, "starting..."), LineEnd(c)>>
          /\ task' = [task EXCEPT ![c] = "sleep"]
          /\ loop' = [ready |-> Tail(loop.ready),
                      timers |-> Append(loop.timers, c)]
       \/ /\ task[c] = "woken"
          /\ stdout8' = stdout8 \o <<Text(c, "finished!"), LineEnd(c)>>
          /\ task' = [task EXCEPT ![c] = "finished"]
          /\ loop' = [loop EXCEPT !.ready = Tail(loop.ready)]
    /\ UNCHANGED <<pc8, thread, process, others8>>

(* The timer of asyncio.sleep: when its time has come the loop puts the     *)
(* sleeper's next step at the end of the ready queue.  The timers have the  *)
(* same duration, so they come due in the order they were set.              *)
TimerDue ==
    /\ pc8 = "gather"
    /\ loop.timers # <<>>
    /\ LET c == Head(loop.timers)
       IN  /\ task' = [task EXCEPT ![c] = "woken"]
           /\ loop' = [ready |-> Append(loop.ready, c),
                       timers |-> Tail(loop.timers)]
    /\ UNCHANGED <<pc8, thread, process, stdout8, others8>>

\* await asyncio.gather(...) is over when both coroutines are; asyncio.run returns
GatherDone ==
    /\ pc8 = "gather"
    /\ \A c \in Coroutines : task[c] = "finished"
    /\ pc8' = "sections_5_6"
    /\ UNCHANGED <<thread, process, task, stdout8, loop, others8>>

\* sections 5 and 6: type hinting, slots; main() returns
Sections_5_6 == MainStep("sections_5_6", "done")

Next8 ==
    \/ Sections_1_3
    \/ PrintConcurrency
    \/ PrintThreading
    \/ T1Start
    \/ T2Start
    \/ T1Join
    \/ T2Join
    \/ \E t \in Threads : io_bound_task(t)
    \/ PrintMultiprocessing
    \/ P1Start
    \/ cpu_bound_task
    \/ P1Join
    \/ PrintProcessFinished
    \/ PrintAsyncio
    \/ AsyncioRun
    \/ \E c \in Coroutines : async_task(c)
    \/ TimerDue
    \/ GatherDone
    \/ Sections_5_6

Spec8 == Init /\ [][Next8]_vars

(* The threads, the child process and the event loop are scheduled, and a   *)
(* sleep of one second ends: a step that can be taken is taken eventually   *)
Spec8Fair == Spec8 /\ WF_vars(Next8)

----------------------------------------------------------------------------
(* phase_8.py section 3: the descriptor PositiveNumber and class BankAccount *)

\* instance.__dict__.get(self.name): the values stored under the name, none
\* when the name is not in the dictionary
PositiveNumber_get(d, name) == {e[2] : e \in {x \in d : x[1] = name}}

\* a line printed by section 3; a "Caught error" line is kept with the value
\* whose assignment raised
Line(what, value) == [line |-> what, value |-> value]

\* faulty variant: the value is stored before it is checked
PositiveNumber_setStoreFirst(d, name, value) ==
    LET stored == {x \in d : x[1] # name} \cup {<<name, value>>}
    IN  IF value < 0
        THEN [raised |-> "ValueError", dict |-> stored, printed |-> <<>>]
        ELSE [raised |-> "none", dict |-> stored,
              printed |-> <<Line("Set", value)>>]

(* PositiveNumber.__set__(self, instance, value): what it raises, the       *)
(* dictionary of the instance afterwards, and what it prints                *)
PositiveNumber_set(d, name, value) ==
    IF value < 0
    THEN [raised |-> "ValueError", dict |-> d, printed |-> <<>>]
    ELSE [raised |-> "none",
          dict |-> {x \in d : x[1] # name} \cup {<<name, value>>},
          printed |-> <<Line("Set", value)>>]

(* acc = BankAccount(init_balance): __init__ assigns self.balance; a        *)
(* ValueError leaves the constructor and main(), and there is no account    *)
BankAccount_init(init_balance) ==
    /\ pcD = "new"
    /\ LET r == PositiveNumber_set(dictD, "balance", init_balance)
       IN  /\ pcD' = IF r.raised = "none" THEN "constructed" ELSE "failed"
           /\ dictD' = r.dict
           /\ outD' = outD \o r.printed
           /\ raisedD' = r.raised
    /\ lastD' = init_balance
    /\ UNCHANGED <<nassign, othersD>>

(* try: acc.balance = value   except ValueError as e: print("Caught error") *)
AssignBalance(value) ==
    /\ pcD = "constructed"
    /\ nassign < MaxAssign
    /\ LET r == PositiveNumber_set(dictD, "balance", value)
       IN  /\ dictD' = r.dict
           /\ outD' = outD \o r.printed \o
                      (IF r.raised = "ValueError"
                       THEN <<Line("Caught error", value)>> ELSE <<>>)
           /\ raisedD' = r.raised
    /\ lastD' = value
    /\ nassign' = nassign + 1
    /\ UNCHANGED <<pcD, othersD>>

NextD ==
    \/ \E v \in Amounts : BankAccount_init(v)
    \/ \E v \in Amounts : AssignBalance(v)

SpecD == Init /\ [][NextD]_vars

----------------------------------------------------------------------------
(* phase_4.py: main(), section 4, Scope *)

(* The namespace a name of a function belongs to.  inner_function declares  *)
(* pantry_item global and counter_item nonlocal; every other name is local  *)
(* to the function that assigns it, pantry_item of main() included.         *)
Binding(fn, name) ==
    IF fn = "inner_function" /\ name = "pantry_item" THEN "globals"
    ELSE IF fn = "inner_function" /\ name = "counter_item" THEN "outer_function"
    ELSE fn

Store(ns, fn, name, value) ==
    [ns EXCEPT ![Binding(fn, name)] =
        {x \in @ : x[1] # name} \cup {<<name, value>>}]

Load(ns, fn, name) ==
    LET found == {x \in ns[Binding(fn, name)] : x[1] = name}
    IN  (CHOOSE x \in found : TRUE)[2]

\* a function returns and its frame is gone
Return4(ns, fn) == [ns EXCEPT ![fn] = {}]

Line4(what, values) == [line |-> what, values |-> values]

Step4(from, to, ns, printed) ==
    /\ pc4 = from
    /\ pc4' = to
    /\ ns4' = ns
    /\ stdout4' = stdout4 \o printed
    /\ UNCHANGED others4

\* sections 1 to 3: functions, parameters, variable length arguments
Sections4_1_3 == Step4("sections_1_3", "line_99", ns4, <<>>)

\* pantry_item = "Sugar"
SetPantryItem ==
    Step4("line_99", "line_119", Store(ns4, "main", "pantry_item", "Sugar"), <<>>)

PrintBeforeOuter ==
    Step4("line_119", "line_120", ns4,
          <<Line4("Before outer call, global pantry has",
                  <<Load(ns4, "main", "pantry_item")>>)>>)

inner_function(ns) ==
    LET n1 == Store(ns, "inner_function", "local_item", "Eggs")
        n2 == Store(n1, "inner_function", "pantry_item", "Brown Sugar")
        n3 == Store(n2, "inner_function", "counter_item", "Whole Wheat Flour")
    IN  [ns |-> Return4(n3, "inner_function"),
         printed |-> <<Line4("Inner sees",
                             <<Load(n3, "inner_function", "local_item"),
                               Load(n3, "inner_function", "counter_item"),
                               Load(n3, "inner_function", "pantry_item")>>)>>]

outer_function ==
    \/ Step4("line_120", "line_115",
             Store(ns4, "outer_function", "counter_item", "Flour"), <<>>)
    \/ Step4("line_115", "line_116", ns4,
             <<Line4("Before inner call, outer sees",
                     <<Load(ns4, "outer_function", "counter_item")>>)>>)
    \/ Step4("line_116", "line_117",
             inner_function(ns4).ns, inner_function(ns4).printed)
    \/ Step4("line_117", "line_121", Return4(ns4, "outer_function"),
             <<Line4("After inner call, outer sees",
                     <<Load(ns4, "outer_function", "counter_item")>>)>>)

PrintAfterOuter ==
    Step4("line_121", "sections_5_7", ns4,
          <<Line4("After outer call, global pantry has",
                  <<Load(ns4, "main", "pantry_item")>>)>>)

\* sections 5 to 7: lambda, recursion, math; main() returns
Sections4_5_7 == Step4("sections_5_7", "done", Return4(ns4, "main"), <<>>)

Next4 ==
    \/ Sections4_1_3
    \/ SetPantryItem
    \/ PrintBeforeOuter
    \/ outer_function
    \/ PrintAfterOuter
    \/ Sections4_5_7

----------------------------------------------------------------------------
(* phase_6.py: main(), section 3, File I/O *)

\* sections 1 and 2: both exceptions raised there are caught by main()
Sections6_1_2 ==
    /\ pc6 = "sections_1_2"
    /\ pc6' = "write"
    /\ UNCHANGED <<fs6, fs6start, content6, others6>>

\* faulty variant: the file is opened for appending
OpenWriteKeepsContent(file) == IF file = {} THEN <<>> ELSE CHOOSE c \in file : TRUE

\* open(filename, "w"): the file is created, or emptied if it exists
OpenWrite(file) == <<>>

\* open(filename, "a"): the file is created if it does not exist
OpenAppend(file) == IF file = {} THEN <<>> ELSE CHOOSE c \in file : TRUE

\* with open(filename, "w") as file: two writes
WriteFile ==
    /\ pc6 = "write"
    /\ fs6' = {OpenWrite(fs6) \o <<"Hello, File World!\n",
                                    "This file was created by Python.">>}
    /\ pc6' = "read"
    /\ UNCHANGED <<fs6start, content6, others6>>

\* try: with open(filename, "r") as file: content = file.read()
\* except FileNotFoundError: print(" Error: File not found!")
ReadFile ==
    /\ pc6 = "read"
    /\ content6' = IF fs6 = {} THEN <<" Error: File not found!">>
                               ELSE CHOOSE c \in fs6 : TRUE
    /\ pc6' = "append"
    /\ UNCHANGED <<fs6, fs6start, others6>>

\* with open(filename, "a") as file: one write
AppendFile ==
    /\ pc6 = "append"
    /\ fs6' = {OpenAppend(fs6) \o <<"\nThis line was appended.">>}
    /\ pc6' = "cleanup"
    /\ UNCHANGED <<fs6start, content6, others6>>

\* if os.path.exists(filename): os.remove(filename); main() returns
Cleanup ==
    /\ pc6 = "cleanup"
    /\ fs6' = IF fs6 # {} THEN {} ELSE fs6
    /\ pc6' = "done"
    /\ UNCHANGED <<fs6start, content6, others6>>

Next6 ==
    \/ Sections6_1_2
    \/ WriteFile
    \/ ReadFile
    \/ AppendFile
    \/ Cleanup

(* The two scripts, each run as a program of its own *)
Next46 == Next4 \/ Next6

Spec46 == Init /\ [][Next46]_vars

----------------------------------------------------------------------------
(* Calls of complex_calculation, one after the other *)

Call(a, b) ==
    /\ callsC < MaxCalls
    /\ LET r == complex_calculation(a, b)
       IN  /\ outC' = [raised |-> r.raised, value |-> r.value]
           /\ logC' = r.log
           /\ histC' = histC \cup
                  {[a |-> a, b |-> b, raised |-> r.raised, value |-> r.value]}
    /\ argsC' = <<a, b>>
    /\ callsC' = callsC + 1
    /\ UNCHANGED <<frameC, othersC>>

NextC == \E a \in PyInts, b \in PyInts : Call(a, b)

SpecC == Init /\ [][NextC]_vars

----------------------------------------------------------------------------
(* complex_calculation, statement by statement *)

\* logging.basicConfig(level=logging.DEBUG, ...)
LoggingLevel == "DEBUG"

Levels == <<"DEBUG", "INFO", "WARNING", "ERROR", "CRITICAL">>

LevelRank(level) == CHOOSE i \in 1..Len(Levels) : Levels[i] = level

\* logger.info / error / debug: the record is logged when its level is
\* enabled
Emit(log, level, what) ==
    IF LevelRank(level) >= LevelRank(LoggingLevel)
    THEN Append(log, Log(level, what))
    ELSE log

Idle == [pc |-> "idle", a |-> PyInt(0), b |-> PyInt(0), result |-> NoValue]

\* faulty variant: the ValueError is raised without the error being logged
AfterCheckNoErrorLog(b) == IF b.m = 0 THEN "line_76" ELSE "line_78"

\* if b == 0: where the call goes on
AfterCheck(b) == IF b.m = 0 THEN "line_75" ELSE "line_78"

\* the call is entered with its arguments bound
Enter(a, b) ==
    /\ frameC.pc = "idle"
    /\ callsC < MaxCalls
    /\ frameC' = [pc |-> "line_71", a |-> a, b |-> b, result |-> NoValue]
    /\ logC' = <<>>
    /\ UNCHANGED <<callsC, argsC, outC, histC, othersC>>

\* a statement that logs a record and goes on
LogStep(from, level, what, to) ==
    /\ frameC.pc = from
    /\ logC' = Emit(logC, level, what)
    /\ frameC' = [frameC EXCEPT !.pc = to]
    /\ UNCHANGED <<callsC, argsC, outC, histC, othersC>>

\* the call is over: an exception leaves it, or it returns a value
Leave(from, raised, value) ==
    /\ frameC.pc = from
    /\ outC' = [raised |-> raised, value |-> value]
    /\ argsC' = <<frameC.a, frameC.b>>
    /\ histC' = histC \cup {[a |-> frameC.a, b |-> frameC.b,
                              raised |-> raised, value |-> value]}
    /\ callsC' = callsC + 1
    /\ frameC' = Idle
    /\ UNCHANGED <<logC, othersC>>

\* logger.info(f"Starting calculation with a={a}, b={b}")
LogInfo == LogStep("line_71", "INFO", "Starting calculation", "line_73")

\* if b == 0:
CheckZero ==
    /\ frameC.pc = "line_73"
    /\ frameC' = [frameC EXCEPT !.pc = AfterCheck(frameC.b)]
    /\ UNCHANGED <<callsC, argsC, outC, logC, histC, othersC>>

\* logger.error("Attempted division by zero!")
LogError ==
    LogStep("line_75", "ERROR", "Attempted division by zero!", "line_76")

\* raise ValueError("Cannot divide by zero")
RaiseValueError == Leave("line_76", "ValueError", NoValue)

\* result = a / b, which can raise OverflowError
Divide ==
    /\ frameC.pc = "line_78"
    /\ LET r == true_division(frameC.a, frameC.b)
       IN  IF r.raised # "none"
           THEN Leave("line_78", r.raised, NoValue)
           ELSE /\ frameC' = [frameC EXCEPT !.pc = "line_79", !.result = r.value]
                /\ UNCHANGED <<callsC, argsC, outC, logC, histC, othersC>>

\* logger.debug(f"Calculation result: {result}")
LogDebug == LogStep("line_79", "DEBUG", "Calculation result", "line_80")

\* return result
ReturnResult == Leave("line_80", "none", frameC.result)

NextL ==
    \/ \E a \in PyInts, b \in PyInts : Enter(a, b)
    \/ LogInfo
    \/ CheckZero
    \/ LogError
    \/ RaiseValueError
    \/ Divide
    \/ LogDebug
    \/ ReturnResult

SpecL == Init /\ [][NextL]_vars

----------------------------------------------------------------------------
(* Properties of the runner *)

Finished == pc9 \in {"ran", "exited"}

Failed(r) == r.status \in {"FAIL", "ERROR"}

ResultNames == [i \in 1..Len(results) |-> results[i].unit_name]

Ascending(seq) ==
    \A i, j \in 1..Len(seq) : i < j => NameRank(seq[i]) < NameRank(seq[j])

\* the fault that leaves the entry procedure of the unit a result is about
FaultOf(r) == Entry(BodyOf(attrs, r.unit_name))

(* C1, as stated: the run returns one result per registered unit, the i-th   *)
(* result carrying the name of the i-th registered unit.                     *)
C1_RegistrationOrder ==
    Finished => /\ Len(results) = Len(attrs)
                /\ ResultNames = NameSeq(attrs)

(* C1, amended: the run returns exactly one result per registered unit, in   *)
(* ascending order of unit name, however many units failed.                  *)
C1_NameOrder ==
    Finished => /\ Len(results) = Len(attrs)
                /\ {ResultNames[i] : i \in 1..Len(results)} = Names(attrs)
                /\ Ascending(ResultNames)

C1_Witness ==
    /\ pc9 = "exited"
    /\ Len(results) = 3
    /\ \E i \in 1..Len(results) : Failed(results[i])
    /\ ResultNames # NameSeq(attrs)

(* C2: when a unit raises a fault, every other registered unit is still run  *)
(* and has a result of its own; none is skipped because of the failure.      *)
C2_NoUnitSkipped ==
    Finished =>
        \A i \in 1..Len(results) :
            Failed(results[i]) =>
                /\ \A k \in (IndexOf(attrs, results[i].unit_name) + 1)..Len(attrs) :
                        \E j \in 1..Len(results) : results[j].unit_name = attrs[k].name
                /\ \A n \in Names(attrs) :
                        NameRank(n) > NameRank(results[i].unit_name) =>
                            \E j \in (i + 1)..Len(results) : results[j].unit_name = n

C2_Witness ==
    /\ Finished
    /\ Len(results) = 3
    /\ Failed(results[1])
    /\ ~Failed(results[2])
    /\ Failed(results[3])

(* C3: a fault raised by a unit never leaves the run: the run returns        *)
(* normally and the fault is recorded in a failed result with a description. *)
C3_FaultContained ==
    /\ uncaught = "none"
    /\ pc9 = "exited" => summary # NoSummary
    /\ testsRun = Len(results)
    /\ \A i \in 1..Len(results) :
            FaultOf(results[i]) # "none" =>
                Failed(results[i]) /\ results[i].fault = FaultOf(results[i])

C3_Witness ==
    /\ pc9 = "exited"
    /\ summary # NoSummary
    /\ \E i \in 1..Len(results) :
            FaultOf(results[i]) = "ValueError" /\ results[i].status = "ERROR"

(* C4: a result is a success without a fault exactly when the entry          *)
(* procedure raised nothing, and a failure with a fault exactly when it      *)
(* raised one.                                                               *)
C4_StatusMatchesFault ==
    \A i \in 1..Len(results) :
        /\ (results[i].status = "ok" /\ results[i].fault = NoFault)
               <=> FaultOf(results[i]) = "none"
        /\ (Failed(results[i]) /\ results[i].fault # NoFault)
               <=> FaultOf(results[i]) # "none"

C4_Witness ==
    /\ Len(results) = 3
    /\ results[1].status = "ok"
    /\ results[2].status = "ERROR"
    /\ results[3].status = "FAIL"

\* a def statement ran and bound a name that was bound already
DuplicateDef ==
    /\ pc9 = "classdef"
    /\ ndefs' = ndefs + 1
    /\ Names(attrs') = Names(attrs)

AllSucceeded == \A i \in 1..Len(results) : results[i].status = "ok"

(* C6, as stated: the command exits with code 0 exactly when every unit      *)
(* succeeded, and with a nonzero code when one or more units failed.         *)
C6_ExitReflectsFailures ==
    pc9 = "exited" => (exitCode = 0 <=> AllSucceeded)

(* C6, amended: the command exits with code 0 whether or not units failed;   *)
(* failures show in the report of the run only.                              *)
C6_ExitAlwaysZero ==
    pc9 = "exited" =>
        /\ exitCode = 0
        /\ (summary.failures + summary.errors = 0) <=> AllSucceeded

C6_Witness ==
    /\ pc9 = "exited"
    /\ exitCode = 0
    /\ NameSeq(attrs) = <<"test_boundary", "test_failure", "test_success">>
    /\ results[1].status = "ok"
    /\ Failed(results[2])
    /\ results[3].status = "ok"

Count(P(_)) == Cardinality({i \in 1..Len(results) : P(results[i])})

Succeeded(r) == r.status = "ok"

succeeded_count == summary.ran - summary.failures - summary.errors

failed_count == summary.failures + summary.errors

(* C7: the counts of the report add up to the number of results, the failed  *)
(* count is the number of failed results and the succeeded count the number  *)
(* of succeeded ones; making the report changes nothing else.                *)
C7_SummaryCounts ==
    /\ [](Finished => /\ succeeded_count + failed_count = Len(results)
                       /\ failed_count = Count(Failed)
                       /\ succeeded_count = Count(Succeeded))
    /\ [][summary' # summary =>
             UNCHANGED <<attrs, suite, results, testsRun, failures, errors,
                         shouldStop, uncaught, exitCode>>]_vars

C7_Witness ==
    /\ Finished
    /\ summary = [ran |-> 3, failures |-> 1, errors |-> 1]
    /\ Count(Failed) = 2
    /\ Count(Succeeded) = 1

(* C8: the names of the registry are pairwise distinct in every state; a run *)
(* produces exactly one result per registered unit, never two, and a result  *)
(* is not changed once it is there.                                          *)
C8_OneResultPerUnit ==
    /\ [](\A i, j \in 1..Len(attrs) : attrs[i].name = attrs[j].name => i = j)
    /\ [](\A i, j \in 1..Len(results) :
             results[i].unit_name = results[j].unit_name => i = j)
    /\ [](Finished =>
             \A k \in 1..Len(attrs) :
                 \E i \in 1..Len(results) : results[i].unit_name = attrs[k].name)
    /\ [][Len(results') >= Len(results)]_vars
    /\ [][\A i \in 1..Len(results) : results'[i] = results[i]]_vars

C8_Witness ==
    /\ Finished
    /\ ndefs = 3
    /\ Len(attrs) = 2
    /\ Len(results) = 2
    /\ Failed(results[1])

(* C9: registration and execution do not interleave: once the run has        *)
(* started no registration changes the registry, and the registry at the end *)
(* of the run is the one the run started with.                               *)
C9_PhasesDoNotInterleave ==
    /\ [][pc9 # "classdef" => attrs' = attrs /\ ndefs' = ndefs]_vars
    /\ [](pc9 \in {"run", "ran", "exited"} => attrs = regAtStart)
    /\ [][pc9' = "classdef" => pc9 = "classdef"]_vars

C9_Witness ==
    /\ pc9 = "ran"
    /\ ndefs < MaxDefs
    /\ Len(attrs) = 2
    /\ attrs = regAtStart
    /\ Len(results) = 2

----------------------------------------------------------------------------
(* Properties of phase_8.py *)

\* the positions of main() in phase_8.py, in program order
Order8 ==
    <<"sections_1_3", "print_4", "print_A", "t1_start", "t2_start", "t1_join",
      "t2_join", "print_B", "p1_start", "p1_join", "print_finished", "print_C",
      "asyncio_run", "gather", "sections_5_6", "done">>

Pos8(p) == CHOOSE i \in 1..Len(Order8) : Order8[i] = p

Past8(p) == Pos8(pc8) > Pos8(p)

ThreadRunning(t) == thread[t] \notin {"new", "ended"}

\* the thread has written the text of a line and not yet its line end
MidLine(t) == thread[t] \in {"starting_end", "woke_end"}

ProcessRunning == process = "started"

TaskRunning(c) == task[c] \in {"scheduled", "sleep", "woken"}

(* C10, as stated: execution is sequential: at any moment at most one        *)
(* procedure is executing and at most one writer is in the middle of writing *)
(* to the shared output stream.                                              *)
C10_Sequential ==
    /\ Cardinality({t \in Threads : ThreadRunning(t)}) <= 1
    /\ Cardinality({t \in Threads : MidLine(t)}) <= 1

(* C10, amended: main() of phase 8 runs its threads A and B concurrently,    *)
(* and both write to the shared output stream; but main() goes past a join   *)
(* or an awaited gather only when what it started there has ended, so        *)
(* threads, child process and coroutines never overlap one another and       *)
(* nothing that main() started is still running when main() returns.         *)
C10_StartedWorkJoined ==
    /\ Past8("t1_join") => thread["A"] = "ended"
    /\ Past8("t2_join") => \A t \in Threads : thread[t] = "ended"
    /\ Past8("p1_join") => process = "exited"
    /\ Past8("gather") => \A c \in Coroutines : task[c] = "finished"
    /\ ProcessRunning => \A t \in Threads : ~ThreadRunning(t)
    /\ (\E c \in Coroutines : TaskRunning(c)) =>
           ~ProcessRunning /\ \A t \in Threads : ~ThreadRunning(t)
    /\ pc8 = "done" =>
           /\ \A t \in Threads : ~ThreadRunning(t)
           /\ ~ProcessRunning
           /\ \A c \in Coroutines : ~TaskRunning(c)

\* main() has returned after a run in which thread B wrote into a line that
\* thread A had begun
C10_Witness ==
    /\ pc8 = "done"
    /\ \E i \in 1..(Len(stdout8) - 1) :
           /\ stdout8[i] = Text("A", "woke up!")
           /\ stdout8[i + 1] = Text("B", "woke up!")

----------------------------------------------------------------------------
(* The empty run *)

(* C12: when the class binds no unit, the run yields no result, the report   *)
(* counts 0 succeeded and 0 failed units, and the exit code is 0.            *)
C12_EmptyRun ==
    (Finished /\ regAtStart = <<>>) =>
        /\ results = <<>>
        /\ uncaught = "none"
        /\ summary = [ran |-> 0, failures |-> 0, errors |-> 0]
        /\ succeeded_count = 0
        /\ failed_count = 0
        /\ pc9 = "exited" => exitCode = 0

C12_Witness ==
    /\ pc9 = "exited"
    /\ ndefs = 0
    /\ regAtStart = <<>>
    /\ results = <<>>
    /\ exitCode = 0

----------------------------------------------------------------------------
(* The output of phase_8.py's concurrency demo *)

Printed(who, what) == \E i \in 1..Len(stdout8) : stdout8[i] = Text(who, what)

At(who, what) == CHOOSE i \in 1..Len(stdout8) : stdout8[i] = Text(who, what)

(* C19: main() goes past a join only when what it joined has ended: both     *)
(* threads have printed "woke up!" before "B. Multiprocessing:" is printed,  *)
(* each thread prints "starting sleep..." before its own "woke up!", and     *)
(* "Process finished." is printed only after the child process has exited.   *)
C19_JoinOrder ==
    /\ Printed("main", "B. Multiprocessing:") =>
           \A t \in Threads :
               /\ Printed(t, "woke up!")
               /\ At(t, "woke up!") < At("main", "B. Multiprocessing:")
               /\ thread[t] = "ended"
    /\ \A t \in Threads :
           Printed(t, "woke up!") =>
               /\ Printed(t, "starting sleep...")
               /\ At(t, "starting sleep...") < At(t, "woke up!")
    /\ Printed("main", "Process finished.") => process = "exited"

C19_Witness ==
    /\ Printed("main", "Process finished.")
    /\ process = "exited"
    /\ At("B", "starting sleep...") < At("A", "starting sleep...")
    /\ At("A", "woke up!") < At("B", "woke up!")
    /\ At("B", "woke up!") < At("main", "B. Multiprocessing:")

(* C20: the two gathered coroutines overlap: X and Y have both printed       *)
(* "starting..." before either prints "finished!", and asyncio.run returns   *)
(* only after both have printed "finished!".                                 *)
C20_GatheredTasksOverlap ==
    /\ \A c \in Coroutines :
           Printed(c, "finished!") =>
               \A d \in Coroutines :
                   /\ Printed(d, "starting...")
                   /\ At(d, "starting...") < At(c, "finished!")
    /\ Past8("gather") => \A c \in Coroutines : Printed(c, "finished!")

C20_Witness ==
    /\ pc8 = "gather"
    /\ task["X"] = "finished"
    /\ task["Y"] = "woken"
    /\ Printed("X", "finished!")
    /\ ~Printed("Y", "finished!")
    /\ At("Y", "starting...") < At("X", "finished!")

----------------------------------------------------------------------------
(* Waiting in phase_8.py *)

ThreadAsleep(t) == thread[t] = "sleep"

TaskAsleep(c) == task[c] = "sleep"

\* main() is in a join, or in asyncio.run, and what it waits for has not ended
MainWaits ==
    \/ pc8 = "t1_join" /\ thread["A"] # "ended"
    \/ pc8 = "t2_join" /\ thread["B"] # "ended"
    \/ pc8 = "p1_join" /\ process # "exited"
    \/ pc8 = "gather" /\ \E c \in Coroutines : task[c] # "finished"

(* C15, as stated: nothing suspends or blocks while a unit runs: no sleep,   *)
(* no waiting in a join of a thread or process, no awaited task.             *)
C15_NeverBlocks ==
    /\ \A t \in Threads : ~ThreadAsleep(t)
    /\ \A c \in Coroutines : ~TaskAsleep(c)
    /\ ~MainWaits

(* C15, amended: phase 8 does sleep, join and await, but every wait ends:    *)
(* whenever main() waits in a join or in asyncio.run, what it waits for has  *)
(* been started, and every run reaches the end of main().                    *)
C15_EveryWaitEnds ==
    /\ [](pc8 = "t1_join" => thread["A"] # "new")
    /\ [](pc8 = "t2_join" => thread["B"] # "new")
    /\ [](pc8 = "p1_join" => process # "new")
    /\ [](pc8 = "gather" => \A c \in Coroutines : task[c] # "new")
    /\ <>(pc8 = "done")

C15_Witness ==
    /\ MainWaits
    /\ pc8 = "t1_join"
    /\ \A t \in Threads : ThreadAsleep(t)

----------------------------------------------------------------------------
(* Properties of the descriptor *)

\* acc.balance, as PositiveNumber.__get__ returns it
Balance == PositiveNumber_get(dictD, "balance")

SetLines(out) == Cardinality({i \in 1..Len(out) : out[i].line = "Set"})

(* C17: once the account is constructed, and after any assignments to        *)
(* acc.balance, the stored balance is a positive number.                     *)
C17_BalancePositive ==
    pcD = "constructed" => \E v \in Balance : v > 0

(* C18: an assignment of a negative value raises ValueError and leaves the   *)
(* stored balance as it was; a "Set" line is printed exactly by the          *)
(* assignments that stored their value.                                      *)
C18_NegativeRejected ==
    /\ [][lastD' < 0 =>
             /\ raisedD' = "ValueError"
             /\ dictD' = dictD
             /\ SetLines(outD') = SetLines(outD)]_varsD
    /\ [][SetLines(outD') = SetLines(outD) + 1 <=>
             /\ raisedD' = "none"
             /\ Balance' = {lastD'}
             /\ outD'[Len(outD')] = Line("Set", lastD')]_varsD
    /\ [][SetLines(outD') \in {SetLines(outD), SetLines(outD) + 1}]_varsD

C18_Witness ==
    /\ pcD = "constructed"
    /\ lastD = -50
    /\ raisedD = "ValueError"
    /\ Balance = {100}
    /\ outD = <<Line("Set", 100), Line("Caught error", -50)>>

----------------------------------------------------------------------------
(* Properties of phase_4.py and phase_6.py *)

Written6 == <<"Hello, File World!\n", "This file was created by Python.">>

(* C11, as stated: a unit leaves the state other units can see as it was:    *)
(* when its entry procedure has returned it has created or changed no        *)
(* module-level variable and no file.                                        *)
C11_NoSharedStateChanged ==
    /\ pc4 = "done" => ns4.globals = {}
    /\ pc6 = "done" => fs6 = fs6start

(* C11, amended: units change state that outlives them.  When main() of      *)
(* phase 4 has returned its frames are gone and the module has the variable  *)
(* pantry_item, "Brown Sugar"; when main() of phase 6 has returned there is  *)
(* no file example_phase_6.txt, whether or not there was one before.  What   *)
(* phase 6 reads back is what it wrote, whatever the file held before.       *)
C11_EffectsOutlastUnit ==
    /\ pc4 = "done" =>
           /\ ns4.globals = {<<"pantry_item", "Brown Sugar">>}
           /\ ns4.main = {} /\ ns4.outer_function = {} /\ ns4.inner_function = {}
    /\ pc4 \in {"sections_1_3", "line_99", "line_119", "line_120", "line_115"} =>
           ns4.globals = {}
    /\ pc6 = "done" => fs6 = {}
    /\ pc6 \in {"read", "append", "cleanup"} => fs6 # {}
    /\ pc6 \in {"append", "cleanup", "done"} => content6 = Written6

C11_Witness ==
    /\ pc4 = "done"
    /\ ns4.globals = {<<"pantry_item", "Brown Sugar">>}
    /\ pc6 = "done"
    /\ fs6start = {<<"left over">>}
    /\ fs6 = {}
    /\ content6 = Written6

(* C16: the pantry_item that main() sets to "Sugar" is the variable that     *)
(* inner_function modifies: after outer_function() has returned, main()      *)
(* reads "Brown Sugar".                                                      *)
C16_MainReadsBrownSugar ==
    \A i \in 1..Len(stdout4) :
        stdout4[i].line = "After outer call, global pantry has" =>
            stdout4[i].values = <<"Brown Sugar">>

----------------------------------------------------------------------------
(* Properties of complex_calculation *)

IsZero(x) == x.m = 0

Returned == outC.raised = "none" /\ outC.value.den > 0

\* the quotient a / b is 10^(BigExp - 2) or more in magnitude
TooLarge(a, b) == ~IsZero(a) /\ ~IsZero(b) /\ a.k = BigExp /\ b.k = 0

\* the quotient a / b is not zero and below 10^(2 - BigExp) in magnitude
TooSmall(a, b) == ~IsZero(a) /\ ~IsZero(b) /\ a.k = 0 /\ b.k = BigExp

\* the float v is equal to a / b
IsQuotient(v, a, b) ==
    /\ v.den > 0
    /\ v.num * b.m = a.m * v.den
    /\ ~IsZero(a) => v.exp + b.k = a.k

SameCallSameResult ==
    \A x, y \in histC : (x.a = y.a /\ x.b = y.b) => x = y

----------------------------------------------------------------------------
(* Properties of the logging of complex_calculation *)

HasLevel(log, level) == \E i \in 1..Len(log) : log[i].level = level

InCall == frameC.pc # "idle"

\* this step ends a call
Leaves == callsC' = callsC + 1

\* the statement by statement model ends a call as complex_calculation says
BigStepAgrees ==
    (~InCall /\ callsC > 0) =>
        LET r == complex_calculation(argsC[1], argsC[2])
        IN  outC = [raised |-> r.raised, value |-> r.value] /\ logC = r.log

====
